---------------------------- MODULE Spec2Model ----------------------------
(***************************************************************************)
(* Model of the notebooks of gwb-dc-inversions.                            *)
(*                                                                         *)
(* Part I models notebooks/DC-1d-smooth-inversion-code.ipynb: a Jupyter    *)
(* kernel executing the code cells from top to bottom.  The state is the   *)
(* kernel namespace (which names are bound, and the values of the names    *)
(* the properties below talk about) and the position in the notebook.      *)
(* The cell `recovered_model = inv.run(starting_model)` is modelled by the *)
(* iteration loop it starts: SimPEG's BaseInversion.run /                  *)
(* Minimize.minimize, which calls the directives of directives_list at     *)
(* initialisation and at the end of every iteration.                       *)
(*                                                                         *)
(* Part II models the widget notebook "Smooth 1D DC Resistivity Inversion" *)
(* (Step 1 .. Step 8), whose app object lives in utils.DCResistivity.      *)
(*                                                                         *)
(* Numbers: resistivities and uncertainties are fixed point, in 1/Scale    *)
(* Ohm m; natural logarithms are fixed point in 1/1000; beta is a          *)
(* binary floating point number (mantissa, exponent); the data misfit is   *)
(* counted in units of 1/2, so that SimPEG's target chifact * 0.5 * nD is  *)
(* the integer chifact * nD.                                               *)
(***************************************************************************)
EXTENDS Integers, Sequences, FiniteSets, TLC

\* ------------------------------------------------------------------ bounds
\* Largest number of rows of the data file.
MaxRows == 2

\* Largest factor of the DOI app's second reference model.
MaxFactor == 3

\* ------------------------------------------------------- program constants
Scale == 100
DefaultUncertaintyFloor == 5
DefaultUncertaintyPercent == 5
DefaultChiFactor == 1
DefaultHalfspaceResistivity == 300
DocumentedStartingResistivity == 1000
NLayers == 21
MaxIter == 30
MaxIterCG == 20
Beta0Ratio == 1
CoolingFactor == 2
CoolingRate == 1
TargetChifact == 1
LastCell == 16

\* ----------------------------------------------------------- input domains
\* Values the user may type into the parameter cell (the defaults included).
ColumnVals == {"None", "Uncertainty (Ohm m)"}
FloorVals == {0, DefaultUncertaintyFloor}
PercentVals == {0, DefaultUncertaintyPercent}
ChiVals == {DefaultChiFactor, 2}
HalfspaceVals == {1, DefaultHalfspaceResistivity, DocumentedStartingResistivity}

\* Rows of the csv file: an apparent resistivity and an uncertainty column.
Rows ==
    {[rho |-> -100, unc |-> 1], [rho |-> 0, unc |-> 2], [rho |-> 100, unc |-> 2]}
DataFiles == UNION {[1..n -> Rows] : n \in 1..MaxRows}

\* Outcomes of the numerics that the notebook does not determine: the data
\* misfit after an iteration and the mantissa of the estimated beta.
PhiVals == {0, 1, 2}
EigVals == {1, 3}

\* ------------------------------------------------------------------- state
VARIABLES
    pc,                     \* index of the next code cell to execute
    defined,                \* names bound in the kernel namespace
    error,                  \* a cell raised NameError
    uncertainty_column, uncertainty_floor, uncertainty_percent,
    chi_factor, halfspace_resistivity,
    df, dobs, uncertainties, data_object,
    starting_model,
    opt,                    \* [maxIter, maxIterCG, iter, stopNextIteration]
    starting_beta, beta_schedule, target_misfit, directives_list,
    inv_phase,              \* "idle", "loop", "finished"
    beta, phi_d, outDict, called,
    app_pc, app

kernelVars == <<pc, defined, error>>
paramVars == <<uncertainty_column, uncertainty_floor, uncertainty_percent,
               chi_factor, halfspace_resistivity>>
dataVars == <<df, dobs, uncertainties, data_object>>
directiveVars == <<starting_beta, beta_schedule, target_misfit, directives_list>>
invVars == <<inv_phase, beta, phi_d, outDict, called>>
appVars == <<app_pc, app>>
vars == <<kernelVars, paramVars, dataVars, starting_model, opt,
          directiveVars, invVars, appVars>>

\* ----------------------------------------------------------- pure helpers
Abs(x) == IF x < 0 THEN -x ELSE x

Range(s) == {s[i] : i \in DOMAIN s}

\* np.log on the resistivities the model draws, in 1/1000.
Ln(x) ==
    CASE x = 1 -> 0
      [] x = 300 -> 5704
      [] x = 1000 -> 6908

\* mesh.nC of TensorMesh([np.r_[layer_thicknesses, layer_thicknesses[-1]]]).
nC == NLayers + 1


\* 0.01 * x in fixed point.
Hundredth(x) == (x * Scale) \div 100

\* Variant: the percentage applied to d_obs, not to |d_obs|.
AssignUncertainties_NoAbs(col, floor, percent, frame, d) ==
    IF col # "None"
    THEN [i \in DOMAIN frame |-> Scale * frame[i].unc]
    ELSE [i \in DOMAIN d |-> Scale * floor + Hundredth(percent * d[i])]

\* Variant: the floor added to the column's values as well.
AssignUncertainties_FloorOnColumn(col, floor, percent, frame, d) ==
    IF col # "None"
    THEN [i \in DOMAIN frame |-> Scale * floor + Scale * frame[i].unc]
    ELSE [i \in DOMAIN d |-> Scale * floor + Hundredth(percent * Abs(d[i]))]

\* The cell "Assign Uncertainties".
AssignUncertainties(col, floor, percent, frame, d) ==
    IF col # "None"
    THEN [i \in DOMAIN frame |-> Scale * frame[i].unc]
    ELSE [i \in DOMAIN d |-> Scale * floor + Hundredth(percent * Abs(d[i]))]

\* Variant: np.zeros in place of np.ones.
StartingModel_Zeros(hr) == [i \in 1..nC |-> Ln(hr) * 0]

\* starting_model = np.log(halfspace_resistivity)*np.ones((mesh.nC))
StartingModel(hr) == [i \in 1..nC |-> Ln(hr) * 1]

\* Variant: the stopping criterion left out of the list.
DirectivesList_NoTargetMisfit ==
    <<"starting_beta", "beta_schedule", "save_iteration">>

\* Variant: the cooling schedule left out of the list.
DirectivesList_NoBetaSchedule ==
    <<"starting_beta", "save_iteration", "target_misfit">>

\* The list built by the directives cell.
DirectivesList ==
    <<"starting_beta", "beta_schedule", "save_iteration", "target_misfit">>

\* --------------------------------------------- names read and bound per cell
Imports ==
    {"os", "np", "mpl", "plt", "pd", "TensorMesh", "maps", "data",
     "data_misfit", "regularization", "optimization", "inverse_problem",
     "inversion", "directives", "dc", "plot_layer", "mkvc"}

\* The names a cell's statements load before the cell itself binds them
\* (both branches of an if counted).
CellReads(c) ==
    CASE c = 0 -> {}
      [] c = 1 -> {"np"}
      [] c = 2 -> {"pd", "data_filename", "half_AB_column", "half_MN_column",
                   "apparent_resistivity_column", "np", "dc", "plt"}
      [] c = 3 -> {"uncertainty_column", "df", "uncertainty_floor",
                   "uncertainty_percent", "np", "dobs"}
      [] c = 4 -> {"data", "survey", "dobs", "uncertainties"}
      [] c = 5 -> {"TensorMesh", "np", "layer_thicknesses",
                   "halfspace_resistivity", "maps"}
      [] c = 6 -> {"dc", "survey", "model_map", "layer_thicknesses"}
      [] c = 7 -> {"data_misfit", "simulation", "data_object", "regularization",
                   "mesh", "starting_model", "optimization", "inverse_problem"}
      [] c = 8 -> {"starting_model", "np"}
      [] c = 9 -> {"directives"}
      [] c = 10 -> {"inversion", "inv_prob", "directives_list", "starting_model"}
      [] c = 11 -> {"np", "TensorMesh"}
      [] c = 12 -> {"plt", "np", "model_map", "recovered_model", "plot_layer",
                    "mesh"}
      [] c = 13 -> {"plt", "half_AB_separations", "inv_prob", "dobs"}
      [] c = 14 -> {"plt", "np", "model_map", "recovered_model", "plot_layer",
                    "mesh", "res_tmp", "plotting_mesh_tmp"}
      [] c = 15 -> {"save_iteration", "np", "plt"}
      [] c = 16 -> {}

\* The names each code cell binds.
NotebookCellWrites(c) ==
    CASE c = 0 -> Imports
      [] c = 1 -> {"data_filename", "half_AB_column", "half_MN_column",
                   "apparent_resistivity_column", "uncertainty_column",
                   "uncertainty_floor", "uncertainty_percent", "chi_factor",
                   "layer_thicknesses", "halfspace_resistivity"}
      [] c = 2 -> {"df", "half_AB_separations", "half_MN_separations", "dobs",
                   "unique_tx", "k", "n_sources", "source_list", "ii",
                   "M_locations", "N_locations", "receiver_list", "A_location",
                   "B_location", "survey", "electrode_separations", "fig", "ax"}
      [] c = 3 -> {"uncertainties"}
      [] c = 4 -> {"data_object"}
      [] c = 5 -> {"mesh", "starting_model", "model_map"}
      [] c = 6 -> {"simulation"}
      [] c = 7 -> {"dmis", "reg", "opt", "inv_prob"}
      [] c = 8 -> {"starting_resistivity"}
      [] c = 9 -> {"starting_beta", "beta_schedule",
                   "update_sensitivity_weights", "save_iteration",
                   "target_misfit", "directives_list"}
      [] c = 10 -> {"inv", "recovered_model"}
      [] c = 11 -> {"res_tmp", "thick_tmp", "plotting_mesh_tmp"}
      [] c = 12 -> {"fig", "ax", "x_min", "x_max"}
      [] c = 13 -> {"fig", "ax"}
      [] c = 14 -> {"fig", "ax", "x_min", "x_max"}
      [] c = 15 -> {"n_interation", "phi_d", "phi_m", "ii", "fig", "ax", "ax_1"}
      [] c = 16 -> {}

\* Variant: the survey cell no longer binds `survey`.
CellWrites_NoSurvey(c) ==
    IF c = 2 THEN NotebookCellWrites(c) \ {"survey"} ELSE NotebookCellWrites(c)

\* The names bound once cell c has been executed.
CellWrites(c) == NotebookCellWrites(c)

\* Cells whose effect on the modelled values is only the names they bind:
\* imports, the simulation, the print cell, the reference result and the plots.
PlainCells == {0, 6, 8, 11, 12, 13, 14, 15, 16}

\* ------------------------------------------------------------ kernel steps
CanRun(c) == CellReads(c) \subseteq defined

Advance(c) ==
    /\ pc' = c + 1
    /\ defined' = defined \cup CellWrites(c)
    /\ error' = FALSE

\* A read of an unbound name raises NameError and Run All stops.
Raise == error' = TRUE /\ UNCHANGED <<pc, defined>>

Init ==
    /\ pc = 0 /\ defined = {} /\ error = FALSE
    /\ uncertainty_column = "None" /\ uncertainty_floor = 0
    /\ uncertainty_percent = 0 /\ chi_factor = 0 /\ halfspace_resistivity = 0
    /\ df = <<>> /\ dobs = <<>> /\ uncertainties = <<>>
    /\ data_object = [dobs |-> <<>>, uncertainty |-> <<>>]
    /\ starting_model = <<>>
    /\ opt = [maxIter |-> 0, maxIterCG |-> 0, iter |-> 0,
              stopNextIteration |-> FALSE]
    /\ starting_beta = [beta0_ratio |-> 0]
    /\ beta_schedule = [coolingFactor |-> 0, coolingRate |-> 0]
    /\ target_misfit = [chifact |-> 0]
    /\ directives_list = <<>>
    /\ inv_phase = "idle"
    /\ beta = [m |-> 0, e |-> 0] /\ phi_d = 0 /\ outDict = {} /\ called = {}
    /\ app_pc = 0
    /\ app = [loaded |-> FALSE,
              inv1 |-> [ran |-> FALSE, m0 |-> 0, mref |-> 0,
                        other |-> [maxIter |-> 0, chifact |-> 0], m |-> <<>>],
              inv2 |-> [ran |-> FALSE, m0 |-> 0, mref |-> 0,
                        other |-> [maxIter |-> 0, chifact |-> 0], m |-> <<>>],
              doi |-> <<>>]

\* Imports, simulation, print, reference result, plots.
PlainCell(c) ==
    /\ pc = c /\ ~error
    /\ IF CanRun(c) THEN Advance(c) ELSE Raise
    /\ UNCHANGED <<paramVars, dataVars, starting_model, opt, directiveVars,
                   invVars, appVars>>

\* The parameter cell: the user's values, the notebook's own among them.
UserParameters ==
    /\ pc = 1 /\ ~error
    /\ IF CanRun(1)
       THEN /\ \E col \in ColumnVals, fl \in FloorVals, pct \in PercentVals,
                  chi \in ChiVals, hr \in HalfspaceVals :
                  /\ uncertainty_column' = col
                  /\ uncertainty_floor' = fl
                  /\ uncertainty_percent' = pct
                  /\ chi_factor' = chi
                  /\ halfspace_resistivity' = hr
            /\ Advance(1)
       ELSE Raise /\ UNCHANGED paramVars
    /\ UNCHANGED <<dataVars, starting_model, opt, directiveVars, invVars,
                   appVars>>

\* df = pd.read_csv(data_filename); dobs = df[apparent_resistivity_column].values
LoadData ==
    /\ pc = 2 /\ ~error
    /\ IF CanRun(2)
       THEN /\ \E f \in DataFiles :
                  /\ df' = f
                  /\ dobs' = [i \in DOMAIN f |-> f[i].rho]
            /\ Advance(2)
       ELSE Raise /\ UNCHANGED <<df, dobs>>
    /\ UNCHANGED <<paramVars, uncertainties, data_object, starting_model, opt,
                   directiveVars, invVars, appVars>>

AssignUncertaintiesCell ==
    /\ pc = 3 /\ ~error
    /\ IF CanRun(3)
       THEN /\ uncertainties' =
                  AssignUncertainties(uncertainty_column, uncertainty_floor,
                                      uncertainty_percent, df, dobs)
            /\ Advance(3)
       ELSE Raise /\ UNCHANGED uncertainties
    /\ UNCHANGED <<paramVars, df, dobs, data_object, starting_model, opt,
                   directiveVars, invVars, appVars>>

\* data_object = data.Data(survey, dobs=dobs, uncertainty=uncertainties)
DefineData ==
    /\ pc = 4 /\ ~error
    /\ IF CanRun(4)
       THEN /\ data_object' = [dobs |-> dobs, uncertainty |-> uncertainties]
            /\ Advance(4)
       ELSE Raise /\ UNCHANGED data_object
    /\ UNCHANGED <<paramVars, df, dobs, uncertainties, starting_model, opt,
                   directiveVars, invVars, appVars>>

DefineStartingModel ==
    /\ pc = 5 /\ ~error
    /\ IF CanRun(5)
       THEN /\ starting_model' = StartingModel(halfspace_resistivity)
            /\ Advance(5)
       ELSE Raise /\ UNCHANGED starting_model
    /\ UNCHANGED <<paramVars, dataVars, opt, directiveVars, invVars, appVars>>

\* opt = optimization.InexactGaussNewton(maxIter=30, maxIterCG=20, ...)
DefineInverseProblem ==
    /\ pc = 7 /\ ~error
    /\ IF CanRun(7)
       THEN /\ opt' = [maxIter |-> MaxIter, maxIterCG |-> MaxIterCG,
                       iter |-> 0, stopNextIteration |-> FALSE]
            /\ Advance(7)
       ELSE Raise /\ UNCHANGED opt
    /\ UNCHANGED <<paramVars, dataVars, starting_model, directiveVars, invVars,
                   appVars>>

DefineDirectives ==
    /\ pc = 9 /\ ~error
    /\ IF CanRun(9)
       THEN /\ starting_beta' = [beta0_ratio |-> Beta0Ratio]
            /\ beta_schedule' = [coolingFactor |-> CoolingFactor,
                                 coolingRate |-> CoolingRate]
            /\ target_misfit' = [chifact |-> TargetChifact]
            /\ directives_list' = DirectivesList
            /\ Advance(9)
       ELSE Raise /\ UNCHANGED directiveVars
    /\ UNCHANGED <<paramVars, dataVars, starting_model, opt, invVars, appVars>>

\* ------------------------------------------------------- the inversion run
\* inv.run(starting_model): BaseInversion.run starts the inverse problem,
\* calls initialize() of every directive of the list, then runs
\* opt.minimize, whose every iteration ends with doEndIteration: iter += 1
\* and endIter() of every directive of the list, in list order.

\* TargetMisfit.target = chifact * phi_d_star, phi_d_star = 0.5 * nD
\* (in units of 1/2).
Target == target_misfit.chifact * Len(data_object.dobs)

\* TargetMisfit.endIter: if invProb.phi_d < target: opt.stopNextIteration = True
TargetReached(p) == "target_misfit" \in Range(directives_list) /\ p < Target

\* log2 of a cooling factor that is a power of two.
Log2(f) == CASE f = 1 -> 0 [] f = 2 -> 1 [] f = 4 -> 2

\* beta /= coolingFactor on a binary floating point number.
Cool(b, f) == [m |-> b.m, e |-> b.e - Log2(f)]

\* BetaSchedule.endIter:
\* if opt.iter > 0 and opt.iter % coolingRate == 0: invProb.beta /= coolingFactor
BetaScheduleEndIter(b, it) ==
    IF /\ "beta_schedule" \in Range(directives_list)
       /\ it > 0
       /\ it % beta_schedule.coolingRate = 0
    THEN Cool(b, beta_schedule.coolingFactor)
    ELSE b

\* SaveOutputDictEveryIteration.endIter: outDict[opt.iter] = {...}
SaveEndIter(d, it) ==
    IF "save_iteration" \in Range(directives_list) THEN d \cup {it} ELSE d

\* Minimize.stoppingCriteria, the `iteration` stopper: iter >= maxIter.
MaxIterReached == opt.iter >= opt.maxIter

\* minimize returns: recovered_model is bound and the cell is done.
Finish ==
    /\ inv_phase' = "finished"
    /\ pc' = 11
    /\ defined' = defined \cup CellWrites(10)
    /\ error' = FALSE

\* inv = inversion.BaseInversion(inv_prob, directives_list); inv.run starts:
\* BetaEstimate_ByEig.initialize sets beta = beta0_ratio * (eigenvalue ratio).
RunInversion ==
    /\ pc = 10 /\ ~error /\ inv_phase = "idle"
    /\ IF CanRun(10)
       THEN /\ \E eig \in EigVals :
                  beta' = IF "starting_beta" \in Range(directives_list)
                          THEN [m |-> starting_beta.beta0_ratio * eig, e |-> 0]
                          ELSE beta
            /\ opt' = [opt EXCEPT !.iter = 0, !.stopNextIteration = FALSE]
            /\ called' = Range(directives_list)
            /\ inv_phase' = "loop"
            /\ defined' = defined \cup {"inv"}
            /\ UNCHANGED <<pc, error, phi_d, outDict>>
       ELSE Raise /\ UNCHANGED <<opt, invVars>>
    /\ UNCHANGED <<paramVars, dataVars, starting_model, directiveVars, appVars>>

\* One Gauss-Newton iteration that passes the stopping criteria and the line
\* search, followed by doEndIteration and `if self.stopNextIteration: break`.
InvIterate ==
    /\ pc = 10 /\ ~error /\ inv_phase = "loop"
    /\ ~MaxIterReached
    /\ \E p \in PhiVals :
          LET it == opt.iter + 1
              stop == TargetReached(p)
          IN  /\ phi_d' = p
              /\ opt' = [opt EXCEPT !.iter = it, !.stopNextIteration = stop]
              /\ beta' = BetaScheduleEndIter(beta, it)
              /\ outDict' = SaveEndIter(outDict, it)
              /\ called' = Range(directives_list)
              /\ IF stop
                 THEN Finish
                 ELSE UNCHANGED <<kernelVars, inv_phase>>
    /\ UNCHANGED <<paramVars, dataVars, starting_model, directiveVars, appVars>>

\* stoppingCriteria() holds at the top of the loop: the iteration count.
InvStopMaxIter ==
    /\ pc = 10 /\ ~error /\ inv_phase = "loop"
    /\ MaxIterReached
    /\ Finish
    /\ UNCHANGED <<paramVars, dataVars, starting_model, opt, directiveVars,
                   beta, phi_d, outDict, called, appVars>>

\* stoppingCriteria() holds for a tolerance (tolF, tolX, tolG), or the line
\* search breaks and minimize returns the current model.
InvStopTolerance ==
    /\ pc = 10 /\ ~error /\ inv_phase = "loop"
    /\ ~MaxIterReached
    /\ Finish
    /\ UNCHANGED <<paramVars, dataVars, starting_model, opt, directiveVars,
                   beta, phi_d, outDict, called, appVars>>

NotebookNext ==
    \/ \E c \in PlainCells : PlainCell(c)
    \/ UserParameters
    \/ LoadData
    \/ AssignUncertaintiesCell
    \/ DefineData
    \/ DefineStartingModel
    \/ DefineInverseProblem
    \/ DefineDirectives
    \/ RunInversion
    \/ InvIterate
    \/ InvStopMaxIter
    \/ InvStopTolerance

Next == NotebookNext

Spec == Init /\ [][Next]_vars

\* A kernel that runs a cell whenever one is runnable.
FairSpec == Spec /\ WF_vars(Next)

\* ==================================================================== Part II
\* The widget notebook "Smooth 1D DC Resistivity Inversion": the code cells
\* call one method of dc_app each.  The methods themselves are not part of
\* the notebook; they are modelled from the notebook's description of
\* Step 5, Step 7 and Step 8.

\* Variant: the Step 8 cell placed before the Step 7 cell.
AppCells_PlotBeforeDoi ==
    <<"DC1DInversionApp", "interact_load_obs", "interact_plot_obs_data",
      "interact_set_mesh", "interact_set_uncertainty",
      "interact_run_inversion", "interact_plot_inversion_results",
      "interact_plot_doi_results", "interact_run_doi", "empty">>

\* The code cells of the notebook, top to bottom.
AppCells ==
    <<"DC1DInversionApp", "interact_load_obs", "interact_plot_obs_data",
      "interact_set_mesh", "interact_set_uncertainty",
      "interact_run_inversion", "interact_plot_inversion_results",
      "interact_run_doi", "interact_plot_doi_results", "empty">>

AppMethod == IF app_pc < Len(AppCells) THEN AppCells[app_pc + 1] ELSE "end"

\* Widget values of Step 5 and results of an inversion.
RefVals == {100, 300}
OtherParams == [maxIter : {10, 20}, chifact : {1}]
AppModels == [1..2 -> {4, 6}]
Factors == 2..MaxFactor

\* doi index = (m1 - m2) / (mref1 - mref2), per layer, as a fraction.
DoiIndex(m1, m2, mref1, mref2) ==
    [i \in DOMAIN m1 |-> [num |-> m1[i] - m2[i], den |-> mref1 - mref2]]

AppPlainMethods ==
    {"DC1DInversionApp", "interact_load_obs", "interact_plot_obs_data",
     "interact_set_mesh", "interact_set_uncertainty",
     "interact_plot_inversion_results", "empty"}

AppPlainCell ==
    /\ AppMethod \in AppPlainMethods
    /\ app_pc' = app_pc + 1
    /\ app' = IF AppMethod = "interact_load_obs"
              THEN [app EXCEPT !.loaded = TRUE]
              ELSE app
    /\ UNCHANGED <<kernelVars, paramVars, dataVars, starting_model, opt,
                   directiveVars, invVars>>

\* Step 5: the inversion runs if `run` is checked.
AppRunInversion ==
    /\ AppMethod = "interact_run_inversion"
    /\ app_pc' = app_pc + 1
    /\ \E run \in BOOLEAN, ref \in RefVals, o \in OtherParams, m \in AppModels :
          app' = IF run /\ app.loaded
                 THEN [app EXCEPT !.inv1 = [ran |-> TRUE, m0 |-> ref,
                                            mref |-> ref, other |-> o, m |-> m]]
                 ELSE app
    /\ UNCHANGED <<kernelVars, paramVars, dataVars, starting_model, opt,
                   directiveVars, invVars>>

\* Step 7: a second inversion with mref2 = mref1 * factor, if `run` is checked.
AppRunDoi ==
    /\ AppMethod = "interact_run_doi"
    /\ app_pc' = app_pc + 1
    /\ \E run \in BOOLEAN, factor \in Factors, m \in AppModels :
          app' = IF run /\ app.inv1.ran
                 THEN [app EXCEPT !.inv2 =
                          [ran |-> TRUE,
                           m0 |-> app.inv1.mref * factor,
                           mref |-> app.inv1.mref * factor,
                           other |-> app.inv1.other,
                           m |-> m]]
                 ELSE app
    /\ UNCHANGED <<kernelVars, paramVars, dataVars, starting_model, opt,
                   directiveVars, invVars>>

\* Step 8: the index is plotted from the two inversions.
AppPlotDoi ==
    /\ AppMethod = "interact_plot_doi_results"
    /\ app_pc' = app_pc + 1
    /\ app' = IF app.inv1.ran /\ app.inv2.ran
              THEN [app EXCEPT !.doi = DoiIndex(app.inv1.m, app.inv2.m,
                                                app.inv1.mref, app.inv2.mref)]
              ELSE app
    /\ UNCHANGED <<kernelVars, paramVars, dataVars, starting_model, opt,
                   directiveVars, invVars>>

AppNext ==
    \/ AppPlainCell
    \/ AppRunInversion
    \/ AppRunDoi
    \/ AppPlotDoi

SpecApp == Init /\ [][AppNext]_vars

\* ===================================================================== claims
RECURSIVE Pow2(_)
Pow2(n) == IF n <= 0 THEN 1 ELSE 2 * Pow2(n - 1)

Min(a, b) == IF a < b THEN a ELSE b

\* a <= b for binary floating point numbers.
FloatLeq(a, b) ==
    LET lo == Min(a.e, b.e)
    IN  a.m * Pow2(a.e - lo) <= b.m * Pow2(b.e - lo)

\* C1: the chi factor of the target-misfit stopping criterion is the value
\* the user assigned to chi_factor.
C1_ChiFactorUsed ==
    {"chi_factor", "target_misfit"} \subseteq defined
        => target_misfit.chifact = chi_factor

\* C2: update_sensitivity_weights is one of the directives the inversion run
\* executes, at initialisation and at the end of every iteration.
C2_SensitivityWeightsExecuted ==
    inv_phase # "idle" => "update_sensitivity_weights" \in called

\* C3: with uncertainty_column None (and a non-negative percentage) every
\* uncertainty is floor + 0.01 * percent * |d_obs|, hence at least the floor,
\* and positive when the floor is positive, also for d_obs <= 0.
C3_UncertaintyFormula ==
    ("uncertainties" \in defined /\ uncertainty_column = "None")
        => /\ DOMAIN uncertainties = DOMAIN dobs
           /\ \A i \in DOMAIN dobs :
                 /\ 100 * uncertainties[i]
                        = 100 * Scale * uncertainty_floor
                          + Scale * uncertainty_percent * Abs(dobs[i])
                 /\ uncertainties[i] >= Scale * uncertainty_floor
                 /\ uncertainty_floor > 0 => uncertainties[i] > 0

C3_Witness ==
    /\ "uncertainties" \in defined
    /\ uncertainty_column = "None"
    /\ uncertainty_floor > 0 /\ uncertainty_percent > 0
    /\ \E i, j \in DOMAIN dobs : dobs[i] = 0 /\ dobs[j] < 0

\* C4: with uncertainty_column naming a column, the uncertainties (and those
\* of the data object the inversion reads) are that column's values in row
\* order, whatever uncertainty_floor and uncertainty_percent are.
C4_ColumnOnly ==
    ("uncertainties" \in defined /\ uncertainty_column # "None")
        => /\ DOMAIN uncertainties = DOMAIN df
           /\ \A i \in DOMAIN df : uncertainties[i] = Scale * df[i].unc
           /\ \A fl \in FloorVals, pct \in PercentVals :
                 AssignUncertainties(uncertainty_column, fl, pct, df, dobs)
                     = uncertainties
           /\ "data_object" \in defined
                 => data_object.uncertainty = uncertainties

C4_Witness ==
    /\ "data_object" \in defined
    /\ uncertainty_column # "None"
    /\ uncertainty_floor > 0 /\ uncertainty_percent > 0
    /\ Len(df) >= 2 /\ df[1].unc # df[2].unc

C5_Safety ==
    /\ opt.iter <= MaxIter
    /\ (inv_phase = "loop" /\ opt.iter > 0) => phi_d >= Target
    /\ inv_phase = "finished"
          => /\ "recovered_model" \in defined
             /\ opt.stopNextIteration <=> (opt.iter > 0 /\ phi_d < Target)

C6_BetaCooling ==
    [][ /\ (inv_phase = "idle" /\ inv_phase' = "loop")
            => beta' \in {[m |-> Beta0Ratio * g, e |-> 0] : g \in EigVals}
        /\ (inv_phase = "loop" /\ opt'.iter = opt.iter + 1)
            => /\ beta'.m = beta.m /\ beta'.e = beta.e - 1
               /\ FloatLeq(beta', beta) /\ ~FloatLeq(beta, beta')
        /\ (inv_phase # "idle" /\ opt'.iter = opt.iter) => beta' = beta
      ]_vars

C6_Witness ==
    /\ inv_phase = "loop"
    /\ opt.iter >= 3
    /\ beta.e = -opt.iter

\* C7: every entry of the starting model of the notebook is log(1000).
C7_StartingModelIsLog1000 ==
    ("starting_model" \in defined
     /\ halfspace_resistivity = DefaultHalfspaceResistivity)
        => \A i \in DOMAIN starting_model :
              starting_model[i] = Ln(DocumentedStartingResistivity)

\* C8: the starting model has a zero entry exactly when halfspace_resistivity
\* is 1; with the notebook's halfspace_resistivity no entry is 0.
C8_NoZeroEntry ==
    "starting_model" \in defined
        => /\ DOMAIN starting_model = 1..nC
           /\ (\E i \in DOMAIN starting_model : starting_model[i] = 0)
                  <=> halfspace_resistivity = 1
           /\ halfspace_resistivity = DefaultHalfspaceResistivity
                  => \A i \in DOMAIN starting_model : starting_model[i] # 0

C8_Witness ==
    /\ "starting_model" \in defined
    /\ halfspace_resistivity = DefaultHalfspaceResistivity
    /\ inv_phase = "loop"

\* C10: run top to bottom, no cell reads a name that no earlier cell bound,
\* the cells run in the order of the notebook, and the inversion runs only
\* once data, uncertainties, simulation, regularization and directives exist.
C10_TopToBottom ==
    /\ ~error
    /\ pc \in 0..LastCell => CellReads(pc) \subseteq defined
    /\ \A c \in 0..LastCell : c < pc => CellWrites(c) \subseteq defined
    /\ defined \subseteq
          UNION {CellWrites(c) : c \in 0..(pc - 1)}
              \cup (IF inv_phase = "loop" THEN {"inv"} ELSE {})
    /\ inv_phase # "idle"
          => {"df", "dobs", "survey", "uncertainties", "data_object", "mesh",
              "starting_model", "model_map", "simulation", "dmis", "reg",
              "opt", "inv_prob", "directives_list", "save_iteration"}
                 \subseteq defined

C10_Witness ==
    /\ pc = LastCell + 1
    /\ ~error
    /\ inv_phase = "finished"

=============================================================================
